---- MODULE Spec2Model ----
(***************************************************************************)
(* A model of jugaad_data's live-data session client (nse/live.py, class   *)
(* NSELive) with its time-boxed memoization, and of the bhavcopy command   *)
(* of the command line tool (cli.py).                                      *)
(*                                                                         *)
(* Python values are modelled as follows.  A dict is a set of <<key,       *)
(* value>> pairs with unique keys; None is a sentinel of the same shape as *)
(* the values it stands beside; an exception is the name of its class; a   *)
(* decoded JSON body is the record of the request that produced it, the    *)
(* HTTP status it came with and the time it was fetched, so that two       *)
(* bodies are equal only when they answer the same request at the same     *)
(* time.                                                                   *)
(***************************************************************************)
EXTENDS Integers, Sequences, FiniteSets, TLC

VARIABLES
    now,        \* the wall clock, in seconds (datetime.now())
    inst,       \* per client slot: is an NSELive instance held, and its session (self.s)
    jar,        \* per session: its cookie jar (requests.Session.cookies)
    nsess,      \* number of Session() objects created so far
    http,       \* every HTTP GET sent so far, in order
    _cache,     \* per client: the memoization table (self._cache)
    fetched,    \* history: per client and key, when the wrapped method last returned
    last,       \* the last operation on a client: its input and its outcome
    cli         \* the state of one run of the bhavcopy command

vars == <<now, inst, jar, nsess, http, _cache, fetched, last, cli>>

(***************************************************************************)
(* Bounds of the model.                                                    *)
(***************************************************************************)
MaxSessions == 2    \* Session() objects created in one behaviour
MaxHttp == 3        \* HTTP requests sent in one behaviour
MaxTime == 5        \* the clock stops here
MaxSpan == 5        \* days between the first date a command line may name and the last

Clients == {1, 2}
Sessions == 1..MaxSessions

(***************************************************************************)
(* NSELive's class attributes.                                             *)
(***************************************************************************)
time_out == 5
base_url == "https://www.nseindia.com/api"
page_url == "https://www.nseindia.com/get-quotes/equity?symbol=LT"
_routes ==
    [ stock_meta |-> "/equity-meta-info",
      stock_quote |-> "/quote-equity",
      stock_derivative_quote |-> "/quote-derivative",
      market_status |-> "/marketStatus",
      chart_data |-> "/chart-databyindex",
      market_turnover |-> "/market-turnover",
      equity_derivative_turnover |-> "/equity-stock",
      all_indices |-> "/allIndices",
      live_index |-> "/equity-stockIndices",
      index_option_chain |-> "/option-chain-indices",
      equity_option_chain |-> "/option-chain-equities",
      currency_option_chain |-> "/option-chain-currency",
      pre_open_market |-> "/market-data-pre-open",
      holiday_list |-> "/holiday-master?type=trading",
      corporate_announcements |-> "/corporate-announcements" ]

(***************************************************************************)
(* Python dicts.                                                           *)
(***************************************************************************)
EmptyDict == {}
DictSet(d, k, v) == {p \in d : p[1] # k} \cup {<<k, v>>}

(***************************************************************************)
(* What the network and the server can answer to one GET.  requests raises *)
(* on a network failure and returns a Response for every HTTP status; the  *)
(* body of a Response is JSON or it is not; the server may set cookies.    *)
(***************************************************************************)
NetErr == [kind |-> "neterr", status |-> 0, json |-> FALSE, cookies |-> {}]
NoResponse == [kind |-> "none", status |-> 0, json |-> FALSE, cookies |-> {}]
HttpResponse(status, json, cookies) ==
    [kind |-> "http", status |-> status, json |-> json, cookies |-> cookies]

\* The browser headers __init__ puts on the session; every request carries them.
h == "browser"

NoValue == [url |-> "", params |-> {}, status |-> 0, at |-> 0]
Request(sid, url, params, cookies, resp) ==
    [sid |-> sid, url |-> url, params |-> params, headers |-> h,
     cookies |-> cookies, status |-> resp.status]

NoLast ==
    [op |-> "", client |-> 0, method |-> "", args |-> <<>>, route |-> "",
     resp |-> NoResponse, exc |-> "", value |-> NoValue, hit |-> FALSE,
     invoked |-> 0, sent |-> 0, prev |-> -1, at |-> 0]

(***************************************************************************)
(* NSELive.__init__: a new Session, the browser headers, one GET of the    *)
(* landing page.  s.get raises on a network failure, and then no instance  *)
(* is obtained; the Response is not looked at.                             *)
(***************************************************************************)
InitRequestsNone(sid, resp) == <<>>

InitRequests(sid, resp) == <<Request(sid, page_url, {}, {}, resp)>>

InitRaises(resp) == resp.kind = "neterr"

Construct(c, resp) ==
    /\ ~inst[c].alive
    /\ nsess < MaxSessions
    /\ Len(http) < MaxHttp
    /\ LET sid == nsess + 1 IN
        /\ nsess' = sid
        /\ http' = http \o InitRequests(sid, resp)
        /\ jar' = [jar EXCEPT ![sid] = resp.cookies]
        /\ inst' = IF InitRaises(resp) THEN inst
                   ELSE [inst EXCEPT ![c] = [alive |-> TRUE, s |-> sid]]
        /\ last' = [NoLast EXCEPT !.op = "init", !.client = c, !.resp = resp,
                        !.exc = IF InitRaises(resp) THEN "ConnectionError" ELSE "",
                        !.sent = Len(InitRequests(sid, resp)), !.at = now]
    /\ UNCHANGED <<now, _cache, fetched, cli>>

(***************************************************************************)
(* NSELive.get.  The route lookup comes first and raises KeyError for a    *)
(* name the table does not hold; s.get raises on a network failure;        *)
(* r.json() raises when the body is not JSON, and decodes it whatever the  *)
(* status was.                                                             *)
(***************************************************************************)
ResolveRouteLenient(route) ==
    IF route \in DOMAIN _routes
        THEN [exc |-> "", url |-> base_url \o _routes[route]]
        ELSE [exc |-> "", url |-> base_url]

ResolveRoute(route) ==
    IF route \in DOMAIN _routes
        THEN [exc |-> "", url |-> base_url \o _routes[route]]
        ELSE [exc |-> "KeyError", url |-> ""]

DecodeResponseLenient(resp) == ""

DecodeResponse(resp) ==
    IF resp.kind = "neterr" THEN "ConnectionError"
    ELSE IF ~resp.json THEN "JSONDecodeError"
    ELSE ""

get(sid, cookies, route, payload, resp, t) ==
    LET r == ResolveRoute(route) IN
    IF r.exc # ""
        THEN [exc |-> r.exc, value |-> NoValue, sent |-> <<>>, cookies |-> cookies]
        ELSE [exc |-> DecodeResponse(resp),
              value |-> IF DecodeResponse(resp) = ""
                          THEN [url |-> r.url, params |-> payload,
                                status |-> resp.status, at |-> t]
                          ELSE NoValue,
              sent |-> <<Request(sid, r.url, payload, cookies, resp)>>,
              cookies |-> cookies \cup resp.cookies]


Get(c, route, payload, resp) ==
    /\ inst[c].alive
    /\ LET sid == inst[c].s
           r == get(sid, jar[sid], route, payload, resp, now) IN
        /\ Len(http) + Len(r.sent) <= MaxHttp
        /\ http' = http \o r.sent
        /\ jar' = [jar EXCEPT ![sid] = r.cookies]
        /\ last' = [NoLast EXCEPT !.op = "get", !.client = c, !.route = route,
                        !.resp = IF r.sent = <<>> THEN NoResponse ELSE resp,
                        !.exc = r.exc, !.value = r.value,
                        !.sent = Len(r.sent), !.at = now]
    /\ UNCHANGED <<now, inst, nsess, _cache, fetched, cli>>

(***************************************************************************)
(* The typed query methods.  Body(m, args) is what the body of method m    *)
(* does with the arguments it is called with: a get of a fixed route with  *)
(* a payload built from the arguments, or a call of another method of the  *)
(* client (callee # "").  Arguments left out take their defaults.          *)
(***************************************************************************)
Arg(args, i, default) == IF Len(args) >= i THEN args[i] ELSE default

DoGet(route, payload) ==
    [route |-> route, payload |-> payload, callee |-> "", cargs |-> <<>>]
DoCall(callee, cargs) ==
    [route |-> "", payload |-> EmptyDict, callee |-> callee, cargs |-> cargs]

stock_quote(args) == DoGet("stock_quote", {<<"symbol", args[1]>>})

stock_quote_fno(args) == DoGet("stock_derivative_quote", {<<"symbol", args[1]>>})

trade_info(args) ==
    DoGet("stock_quote", {<<"symbol", args[1]>>, <<"section", "trade_info">>})

market_status(args) == DoGet("market_status", EmptyDict)

chart_data(args) ==
    LET symbol == args[1]
        indices == Arg(args, 2, FALSE)
        data == {<<"index", symbol \o "EQN">>} IN
    DoGet("chart_data",
          IF indices
              THEN DictSet(DictSet(data, "index", symbol), "indices", "true")
              ELSE data)

tick_data(args) == DoCall("chart_data", <<args[1], Arg(args, 2, FALSE)>>)

market_turnover(args) == DoGet("market_turnover", EmptyDict)

eq_derivative_turnover(args) ==
    DoGet("equity_derivative_turnover", {<<"index", Arg(args, 1, "allcontracts")>>})

all_indices(args) == DoGet("all_indices", EmptyDict)

live_index(args) == DoGet("live_index", {<<"index", Arg(args, 1, "NIFTY 50")>>})

index_option_chain(args) ==
    DoGet("index_option_chain", {<<"symbol", Arg(args, 1, "NIFTY")>>})

equities_option_chain(args) == DoGet("equity_option_chain", {<<"symbol", args[1]>>})

currency_option_chain(args) ==
    DoGet("currency_option_chain", {<<"symbol", Arg(args, 1, "USDINR")>>})

live_fno(args) == DoCall("live_index", <<"SECURITIES IN F&O">>)

pre_open_market(args) == DoGet("pre_open_market", {<<"key", Arg(args, 1, "NIFTY")>>})

holiday_list(args) == DoGet("holiday_list", EmptyDict)

Body(m, args) ==
    CASE m = "stock_quote" -> stock_quote(args)
      [] m = "stock_quote_fno" -> stock_quote_fno(args)
      [] m = "trade_info" -> trade_info(args)
      [] m = "market_status" -> market_status(args)
      [] m = "chart_data" -> chart_data(args)
      [] m = "tick_data" -> tick_data(args)
      [] m = "market_turnover" -> market_turnover(args)
      [] m = "eq_derivative_turnover" -> eq_derivative_turnover(args)
      [] m = "all_indices" -> all_indices(args)
      [] m = "live_index" -> live_index(args)
      [] m = "index_option_chain" -> index_option_chain(args)
      [] m = "equities_option_chain" -> equities_option_chain(args)
      [] m = "currency_option_chain" -> currency_option_chain(args)
      [] m = "live_fno" -> live_fno(args)
      [] m = "pre_open_market" -> pre_open_market(args)
      [] m = "holiday_list" -> holiday_list(args)

(***************************************************************************)
(* The methods that carry the @live_cache decorator.                       *)
(***************************************************************************)
MemoizedNone(m) == FALSE

Memoized(m) ==
    m \in {"stock_quote", "stock_quote_fno", "trade_info", "market_status",
           "chart_data", "tick_data", "market_turnover", "eq_derivative_turnover",
           "all_indices", "index_option_chain", "equities_option_chain",
           "currency_option_chain", "live_fno", "pre_open_market", "holiday_list"}

(***************************************************************************)
(* The memoization wrapper, live_cache.  An entry is kept per (method,     *)
(* argument tuple); an entry younger than time_out answers the call; else  *)
(* the wrapped method runs and, when it returns, its result is stored with *)
(* the current time.  An exception of the wrapped method passes through    *)
(* the wrapper and nothing is stored.                                      *)
(***************************************************************************)
CacheKeySymbolOnly(m, args) == <<m, SubSeq(args, 1, 1)>>

CacheKey(m, args) == <<m, args>>

CacheHit(cch, key, t) ==
    /\ key \in DOMAIN cch
    /\ t - cch[key].timestamp < time_out

CacheStore(cch, key, value, t) ==
    [k \in DOMAIN cch \cup {key} |->
        IF k = key THEN [value |-> value, timestamp |-> t] ELSE cch[k]]

(***************************************************************************)
(* One call of method m on a client whose memoization table is cch, at     *)
(* time t, when the server would answer resp to a GET.  The result holds   *)
(* the exception raised ("" for none), the value returned, the requests    *)
(* sent, the cookie jar and the table afterwards, the keys of the methods  *)
(* whose bodies ran (outermost first) and of those whose bodies returned.  *)
(* RunBody is the method itself: its get, or its call of another method    *)
(* through that method's wrapper.  Invoke is the method as the client      *)
(* exposes it: wrapped by live_cache when it is decorated.                 *)
(***************************************************************************)
RECURSIVE Invoke(_, _, _, _, _, _, _)
RECURSIVE RunBody(_, _, _, _, _, _, _)
RunBody(cch, sid, cookies, m, args, resp, t) ==
    LET b == Body(m, args)
        r == IF b.callee = ""
                THEN LET g == get(sid, cookies, b.route, b.payload, resp, t) IN
                     [exc |-> g.exc, value |-> g.value, sent |-> g.sent,
                      cookies |-> g.cookies, cache |-> cch, hit |-> FALSE,
                      ran |-> <<>>, returned |-> {}]
                ELSE Invoke(cch, sid, cookies, b.callee, b.cargs, resp, t)
    IN  [r EXCEPT
            !.hit = FALSE,
            !.ran = <<CacheKey(m, args)>> \o r.ran,
            !.returned = IF r.exc = "" THEN r.returned \cup {CacheKey(m, args)}
                         ELSE r.returned]

Invoke(cch, sid, cookies, m, args, resp, t) ==
    LET key == CacheKey(m, args) IN
    IF ~Memoized(m) THEN RunBody(cch, sid, cookies, m, args, resp, t)
    ELSE IF CacheHit(cch, key, t)
        THEN [exc |-> "", value |-> cch[key].value, sent |-> <<>>,
              cookies |-> cookies, cache |-> cch, hit |-> TRUE,
              ran |-> <<>>, returned |-> {}]
        ELSE
            LET r == RunBody(cch, sid, cookies, m, args, resp, t) IN
            IF r.exc # "" THEN r
            ELSE [r EXCEPT !.cache = CacheStore(r.cache, key, r.value, t)]

(***************************************************************************)
(* The calls and the answers the specifications below draw from.  The      *)
(* landing page is HTML; it sets the session's first cookie when it is     *)
(* served.                                                                 *)
(***************************************************************************)
LandingResponses ==
    {NetErr, HttpResponse(200, FALSE, {"nsit"}), HttpResponse(403, FALSE, {})}

GetResponses ==
    {NetErr, HttpResponse(200, TRUE, {"bm_sv"}), HttpResponse(403, TRUE, {}),
     HttpResponse(200, FALSE, {})}

GetRoutes == {"stock_quote", "market_status", "no_such_route"}
GetPayloads == {EmptyDict, {<<"symbol", "SBIN">>}}

CacheResponses == {NetErr, HttpResponse(200, TRUE, {}), HttpResponse(200, FALSE, {})}

CallSet ==
    { <<"chart_data", <<"SBIN", FALSE>> >>,
      <<"tick_data", <<"SBIN", FALSE>> >>,
      <<"live_fno", <<>> >> }

KeyResponses == {NetErr, HttpResponse(200, TRUE, {})}

KeyCallSet ==
    { <<"stock_quote", <<"SBIN">> >>, <<"stock_quote", <<"LT">> >>,
      <<"stock_quote_fno", <<"SBIN">> >>, <<"trade_info", <<"SBIN">> >>,
      <<"chart_data", <<"SBIN", FALSE>> >>, <<"chart_data", <<"SBIN", TRUE>> >> }

PrevFetch(f, key) == IF key \in DOMAIN f THEN f[key] ELSE -1

Call(c, m, args, resp) ==
    /\ inst[c].alive
    /\ LET sid == inst[c].s
           key == CacheKey(m, args)
           r == Invoke(_cache[c], sid, jar[sid], m, args, resp, now) IN
        /\ Len(http) + Len(r.sent) <= MaxHttp
        /\ http' = http \o r.sent
        /\ jar' = [jar EXCEPT ![sid] = r.cookies]
        /\ _cache' = [_cache EXCEPT ![c] = r.cache]
        /\ fetched' = [fetched EXCEPT ![c] =
                [k \in DOMAIN fetched[c] \cup r.returned |->
                    IF k \in r.returned THEN now ELSE fetched[c][k]]]
        /\ last' = [NoLast EXCEPT !.op = "call", !.client = c, !.method = m,
                        !.args = args,
                        !.resp = IF r.sent = <<>> THEN NoResponse ELSE resp,
                        !.exc = r.exc,
                        !.value = r.value, !.hit = r.hit,
                        !.invoked = Len(SelectSeq(r.ran, LAMBDA k : k = key)),
                        !.sent = Len(r.sent),
                        !.prev = PrevFetch(fetched[c], key), !.at = now]
    /\ UNCHANGED <<now, inst, nsess, cli>>

(***************************************************************************)
(* The clock.                                                              *)
(***************************************************************************)
Tick ==
    /\ now < MaxTime
    /\ now' = now + 1
    /\ UNCHANGED <<inst, jar, nsess, http, _cache, fetched, last, cli>>

(***************************************************************************)
(* datetime.date values and date.strftime("%d-%m-%Y"): day and month       *)
(* zero-padded to two digits, the year to four.                            *)
(***************************************************************************)
NoneDate == [isNone |-> TRUE, year |-> 0, month |-> 0, day |-> 0]
Date(y, m, d) == [isNone |-> FALSE, year |-> y, month |-> m, day |-> d]
NoneStr == "<None>"

Digits == <<"0", "1", "2", "3", "4", "5", "6", "7", "8", "9">>
Digit(n) == Digits[n + 1]
Pad2(n) == Digit((n \div 10) % 10) \o Digit(n % 10)
Pad4(n) == Pad2(n \div 100) \o Pad2(n % 100)

strftime_dmY(dt) == Pad2(dt.day) \o "-" \o Pad2(dt.month) \o "-" \o Pad4(dt.year)

\* Python's truth value of a date-or-None and of a str-or-None.
TruthyDate(dt) == ~dt.isNone
TruthyStr(str) == str # NoneStr /\ str # ""

(***************************************************************************)
(* NSELive.corporate_announcements: the payload it builds, or the          *)
(* exception it raises before anything is sent.                            *)
(***************************************************************************)
CorpPayloadUnchecked(segment, from_date, to_date, symbol) ==
    LET p0 == {<<"index", segment>>}
        p1 == IF TruthyDate(from_date) /\ TruthyDate(to_date)
                THEN DictSet(DictSet(p0, "from_date", strftime_dmY(from_date)),
                             "to_date", strftime_dmY(to_date))
                ELSE p0
        p2 == IF TruthyStr(symbol) THEN DictSet(p1, "symbol", symbol) ELSE p1
    IN  [exc |-> "", payload |-> p2]

CorpPayload(segment, from_date, to_date, symbol) ==
    LET p0 == {<<"index", segment>>}
        p1 == IF TruthyDate(from_date) /\ TruthyDate(to_date)
                THEN DictSet(DictSet(p0, "from_date", strftime_dmY(from_date)),
                             "to_date", strftime_dmY(to_date))
                ELSE p0
        p2 == IF TruthyStr(symbol) THEN DictSet(p1, "symbol", symbol) ELSE p1
    IN  IF ~(TruthyDate(from_date) /\ TruthyDate(to_date))
            /\ (TruthyDate(from_date) \/ TruthyDate(to_date))
            THEN [exc |-> "Exception", payload |-> EmptyDict]
            ELSE [exc |-> "", payload |-> p2]

corporate_announcements(c, segment, from_date, to_date, symbol, resp) ==
    /\ inst[c].alive
    /\ LET sid == inst[c].s
           b == CorpPayload(segment, from_date, to_date, symbol)
           r == IF b.exc # ""
                    THEN [exc |-> b.exc, value |-> NoValue, sent |-> <<>>,
                          cookies |-> jar[sid]]
                    ELSE get(sid, jar[sid], "corporate_announcements", b.payload,
                             resp, now) IN
        /\ Len(http) + Len(r.sent) <= MaxHttp
        /\ http' = http \o r.sent
        /\ jar' = [jar EXCEPT ![sid] = r.cookies]
        /\ last' = [NoLast EXCEPT !.op = "corporate_announcements", !.client = c,
                        !.args = <<segment, from_date, to_date, symbol>>,
                        !.route = "corporate_announcements",
                        !.resp = IF r.sent = <<>> THEN NoResponse ELSE resp,
                        !.exc = r.exc, !.value = r.value,
                        !.sent = Len(r.sent), !.at = now]
    /\ UNCHANGED <<now, inst, nsess, _cache, fetched, cli>>

CorpSegments == {"equities"}
CorpDates == {NoneDate, Date(2024, 12, 2), Date(2024, 12, 6)}
CorpSymbols == {NoneStr, "", "SBIN"}
CorpResponses == {HttpResponse(200, TRUE, {})}

(***************************************************************************)
(* The bhavcopy command of cli.py.  A date is its proleptic Gregorian      *)
(* ordinal (date.toordinal()); 0 stands for an option that was not given.  *)
(* nse.bhavcopy_save writes the file or raises what requests raised.       *)
(***************************************************************************)
FirstDay == 737425      \* 2020-01-01, a Wednesday
CliDates == FirstDay..(FirstDay + MaxSpan)
weekday(dt) == (dt + 6) % 7

SaveOutcomes == {"ok", "ReadTimeout", "ConnectTimeout", "ConnectionError"}

RECURSIVE WeekdaysFrom(_, _, _)
WeekdaysFrom(from_, i, n) ==
    IF i >= n THEN <<>>
    ELSE (IF weekday(from_ + i) \notin {5, 6} THEN <<from_ + i>> ELSE <<>>)
            \o WeekdaysFrom(from_, i + 1, n)

DateRange(from_, to) == WeekdaysFrom(from_, 0, (to - from_) + 1)

Echo(text, dt) == [text |-> text, dt |-> dt]

RECURSIVE EchoEach(_)
EchoEach(dts) ==
    IF dts = <<>> THEN <<>> ELSE <<Echo("", Head(dts))>> \o EchoEach(Tail(dts))

\* The try statement around nse.bhavcopy_save: what it lets through.
Caught(outcome) == outcome = "ReadTimeout"

bhavcopy(from_, to, today) ==
    /\ cli.pc = "idle"
    /\ cli' = IF from_ = 0
                THEN [cli EXCEPT !.pc = "single", !.from_ = from_, !.to = to,
                                 !.date_range = <<today>>, !.i = 1]
              ELSE IF to = 0
                THEN [cli EXCEPT !.pc = "single", !.from_ = from_, !.to = to,
                                 !.date_range = <<from_>>, !.i = 1]
              ELSE [cli EXCEPT !.pc = "loop", !.from_ = from_, !.to = to,
                               !.date_range = DateRange(from_, to), !.i = 1]
    /\ UNCHANGED <<now, inst, jar, nsess, http, _cache, fetched, last>>

bhavcopy_single(outcome) ==
    /\ cli.pc = "single"
    /\ LET dt == cli.date_range[1] IN
       cli' = IF outcome = "ok"
                THEN [cli EXCEPT !.pc = "done", !.i = 2, !.attempted = <<dt>>,
                                 !.saved = {dt},
                                 !.echoed = <<Echo("Saved to : path", dt)>>]
              ELSE IF Caught(outcome)
                THEN [cli EXCEPT !.pc = "done", !.i = 2, !.attempted = <<dt>>,
                                 !.echoed = <<Echo("Error: Timeout while downloading", dt)>>]
              ELSE [cli EXCEPT !.pc = "crashed", !.i = 2, !.attempted = <<dt>>,
                               !.exc = outcome]
    /\ UNCHANGED <<now, inst, jar, nsess, http, _cache, fetched, last>>

bhavcopy_item(outcome) ==
    /\ cli.pc = "loop"
    /\ cli.i <= Len(cli.date_range)
    /\ LET dt == cli.date_range[cli.i] IN
       cli' = IF outcome = "ok"
                THEN [cli EXCEPT !.i = @ + 1, !.attempted = Append(@, dt),
                                 !.saved = @ \cup {dt}]
              ELSE IF Caught(outcome)
                THEN [cli EXCEPT !.i = @ + 1, !.attempted = Append(@, dt),
                                 !.failed_downloads = Append(@, dt)]
              ELSE [cli EXCEPT !.pc = "crashed", !.attempted = Append(@, dt),
                               !.exc = outcome]
    /\ UNCHANGED <<now, inst, jar, nsess, http, _cache, fetched, last>>

bhavcopy_report ==
    /\ cli.pc = "loop"
    /\ cli.i > Len(cli.date_range)
    /\ cli' = [cli EXCEPT
                !.pc = "done",
                !.echoed = <<Echo("Saved to : dir", 0)>> \o
                    (IF cli.failed_downloads # <<>>
                        THEN <<Echo("Failed to download for below dates", 0)>>
                                \o EchoEach(cli.failed_downloads)
                        ELSE <<>>)]
    /\ UNCHANGED <<now, inst, jar, nsess, http, _cache, fetched, last>>

NoCli ==
    [pc |-> "idle", from_ |-> 0, to |-> 0, date_range |-> <<>>, i |-> 0,
     attempted |-> <<>>, failed_downloads |-> <<>>, saved |-> {}, echoed |-> <<>>,
     exc |-> ""]

Init ==
    /\ now = 0
    /\ inst = [c \in Clients |-> [alive |-> FALSE, s |-> 0]]
    /\ jar = [s \in Sessions |-> {}]
    /\ nsess = 0
    /\ http = <<>>
    /\ _cache = [c \in Clients |-> <<>>]
    /\ fetched = [c \in Clients |-> <<>>]
    /\ last = NoLast
    /\ cli = NoCli

Next ==
    \/ \E c \in Clients, resp \in LandingResponses : Construct(c, resp)
    \/ \E c \in Clients, route \in GetRoutes, payload \in GetPayloads,
          resp \in GetResponses : Get(c, route, payload, resp)

Spec == Init /\ [][Next]_vars

(***************************************************************************)
(* One client, constructed: the landing page answered 200.                 *)
(***************************************************************************)
InitLive ==
    /\ now = 0
    /\ inst = [c \in Clients |->
                IF c = 1 THEN [alive |-> TRUE, s |-> 1] ELSE [alive |-> FALSE, s |-> 0]]
    /\ jar = [s \in Sessions |-> IF s = 1 THEN {"nsit"} ELSE {}]
    /\ nsess = 1
    /\ http = InitRequests(1, HttpResponse(200, FALSE, {"nsit"}))
    /\ _cache = [c \in Clients |-> <<>>]
    /\ fetched = [c \in Clients |-> <<>>]
    /\ last = NoLast
    /\ cli = NoCli

NextCache ==
    \/ \E k \in CallSet, resp \in CacheResponses : Call(1, k[1], k[2], resp)
    \/ Tick

SpecCache == InitLive /\ [][NextCache]_vars

NextKeys ==
    \E k \in KeyCallSet, resp \in KeyResponses : Call(1, k[1], k[2], resp)

SpecKeys == InitLive /\ [][NextKeys]_vars

NextCorp ==
    \E segment \in CorpSegments, from_date \in CorpDates, to_date \in CorpDates,
       symbol \in CorpSymbols, resp \in CorpResponses :
        corporate_announcements(1, segment, from_date, to_date, symbol, resp)

SpecCorp == InitLive /\ [][NextCorp]_vars

NextCli ==
    \/ \E from_ \in CliDates \cup {0}, to \in CliDates \cup {0}, today \in {FirstDay} :
            bhavcopy(from_, to, today)
    \/ \E outcome \in SaveOutcomes : bhavcopy_single(outcome)
    \/ \E outcome \in SaveOutcomes : bhavcopy_item(outcome)
    \/ bhavcopy_report

SpecCli == Init /\ [][NextCli]_vars

(***************************************************************************)
(*                            Memoization                                  *)
(***************************************************************************)
MemoizedMethods ==
    {"stock_quote", "stock_quote_fno", "trade_info", "market_status",
     "chart_data", "tick_data", "market_turnover", "eq_derivative_turnover",
     "all_indices", "index_option_chain", "equities_option_chain",
     "currency_option_chain", "live_fno", "pre_open_market", "holiday_list"}

LastIsMemoizedCall == last.op = "call" /\ last.method \in MemoizedMethods

RECURSIVE RequestOf(_, _)
RequestOf(m, args) ==
    LET b == Body(m, args) IN
    IF b.callee = "" THEN [url |-> base_url \o _routes[b.route], params |-> b.payload]
    ELSE RequestOf(b.callee, b.cargs)

AnswersRequestOf(value, m, args) ==
    [url |-> value.url, params |-> value.params] = RequestOf(m, args)

\* C2: calls that differ in method or in arguments never share a cache entry:
\* every entry holds the answer to the request of its own (method, arguments)
\* pair, and a call that returns, from the cache or from upstream, returns the
\* answer to its own request.
C2_ArgumentSensitive ==
    /\ \A c \in Clients : \A key \in DOMAIN _cache[c] :
            AnswersRequestOf(_cache[c][key].value, key[1], key[2])
    /\ (LastIsMemoizedCall /\ last.exc = "") =>
            AnswersRequestOf(last.value, last.method, last.args)

\* stock_quote and trade_info of one symbol, which use the same route, are both
\* cached, and the last call was answered from the cache.
C2_Witness ==
    /\ LastIsMemoizedCall
    /\ last.hit
    /\ last.method = "trade_info"
    /\ {<<"stock_quote", <<"SBIN">> >>, <<"trade_info", <<"SBIN">> >>}
            \subseteq DOMAIN _cache[1]

C10_StalenessBound ==
    (LastIsMemoizedCall /\ last.exc = "") => last.at - last.value.at < time_out

(***************************************************************************)
(*                          The session client                             *)
(***************************************************************************)
Is2xx(status) == status \in 200..299
IsLanding(i) == http[i].url = page_url
LandingsOf(sid) == {i \in 1..Len(http) : http[i].sid = sid /\ IsLanding(i)}

\* C4: get with a route name the table does not hold raises (KeyError) before
\* anything is sent: no request is added to those sent, and the session, its
\* cookies and the instances are as they were.
C4_UnknownRoute ==
    [][ (last'.op = "get" /\ last'.route \notin DOMAIN _routes)
        => /\ last'.exc = "KeyError"
           /\ last'.sent = 0
           /\ http' = http
           /\ jar' = jar
           /\ inst' = inst ]_vars

\* get was called with an unknown route on a session that has already sent a
\* route request and holds the cookie it was answered with.
C4_Witness ==
    /\ last.op = "get"
    /\ last.route = "no_such_route"
    /\ last.exc = "KeyError"
    /\ Len(http) >= 2
    /\ "bm_sv" \in jar[inst[last.client].s]

\* C5: get raises whenever the GET ends in a network error or the server
\* answers with a status outside 2xx, and what get returns never is the body
\* of an answer outside 2xx.
C5_RequestFailed ==
    last.op = "get" =>
        /\ (last.sent = 1 /\ (last.resp.kind = "neterr" \/ ~Is2xx(last.resp.status)))
                => last.exc \in {"ConnectionError", "HTTPError"}
        /\ (last.exc = "" => Is2xx(last.value.status))

\* C6: an instance is obtained only when the landing page was reached and
\* answered 2xx, and no route request is sent on a session whose landing page
\* visit did not succeed.
C6_ConstructionFallible ==
    /\ \A c \in Clients : inst[c].alive =>
            \A i \in LandingsOf(inst[c].s) : Is2xx(http[i].status)
    /\ \A i \in 1..Len(http) : ~IsLanding(i) =>
            \E j \in LandingsOf(http[i].sid) : j < i /\ Is2xx(http[j].status)

\* What the requests sent so far show of the sessions.
C9_SessionInvariant ==
    /\ \A i \in 1..Len(http) : ~IsLanding(i) =>
            \E j \in LandingsOf(http[i].sid) : j < i
    /\ \A sid \in 1..nsess : Cardinality(LandingsOf(sid)) = 1
    /\ \A c \in Clients : inst[c].alive => inst[c].s \in 1..nsess
    /\ \A c, d \in Clients :
            (inst[c].alive /\ inst[d].alive /\ c # d) => inst[c].s # inst[d].s
    /\ (last.op \in {"get", "call"} /\ last.sent = 1) =>
            http[Len(http)].sid = inst[last.client].s
    /\ \A i, j \in 1..Len(http) :
            (i < j /\ http[i].sid = http[j].sid) => http[i].cookies \subseteq http[j].cookies
    /\ \A i \in 1..Len(http) :
            http[i].cookies \subseteq jar[http[i].sid] /\ http[i].headers = h

\* An instance is never given another session.
C9_SessionKept == [][\A c \in Clients : inst[c].alive => inst'[c] = inst[c]]_vars

\* C9: every route request follows the landing page visit of its own session;
\* a session visits the landing page exactly once, before anything else; an
\* instance keeps the session it was constructed with, every request of an
\* instance goes out on that session, and a session sends the cookies it has
\* sent before on every later request.
C9_SessionInitialised == []C9_SessionInvariant /\ C9_SessionKept

\* Two instances, and a route request carrying the landing page's cookie.
C9_Witness ==
    /\ inst[1].alive /\ inst[2].alive
    /\ last.op = "get"
    /\ last.sent = 1
    /\ "nsit" \in http[Len(http)].cookies

(***************************************************************************)
(*                       Corporate announcements                           *)
(***************************************************************************)
\* The dd-mm-yyyy text of the dates the specification draws from.
ExpectedDMY(dt) ==
    CASE dt = Date(2024, 12, 2) -> "02-12-2024"
      [] dt = Date(2024, 12, 6) -> "06-12-2024"

LastParams == http[Len(http)].params
DictKeys(d) == {p[1] : p \in d}
DictGet(d, k) == (CHOOSE p \in d : p[1] = k)[2]

\* C8: with exactly one of from_date and to_date the call raises and sends
\* nothing; with neither, a request goes out whose parameters hold neither
\* from_date nor to_date; with both, the parameters hold both as dd-mm-yyyy.
C8_BothOrNeither ==
    last.op = "corporate_announcements" =>
        LET from_date == last.args[2]
            to_date == last.args[3] IN
        /\ (from_date.isNone # to_date.isNone) =>
                (last.exc = "Exception" /\ last.sent = 0)
        /\ (from_date.isNone /\ to_date.isNone) =>
                /\ last.exc # "Exception"
                /\ last.sent = 1
                /\ DictKeys(LastParams) \cap {"from_date", "to_date"} = {}
        /\ (~from_date.isNone /\ ~to_date.isNone) =>
                /\ last.exc # "Exception"
                /\ last.sent = 1
                /\ {"from_date", "to_date"} \subseteq DictKeys(LastParams)
                /\ DictGet(LastParams, "from_date") = ExpectedDMY(from_date)
                /\ DictGet(LastParams, "to_date") = ExpectedDMY(to_date)
                /\ Len(DictGet(LastParams, "from_date")) = 10

\* Both dates were given and the request went out with both.
C8_Witness ==
    /\ last.op = "corporate_announcements"
    /\ last.args[2] = Date(2024, 12, 2)
    /\ last.args[3] = Date(2024, 12, 6)
    /\ last.sent = 1
    /\ <<"from_date", "02-12-2024">> \in LastParams
    /\ <<"to_date", "06-12-2024">> \in LastParams

(***************************************************************************)
(*                        The bhavcopy command                             *)
(***************************************************************************)
TimeoutOrRequestFailed == {"ReadTimeout", "ConnectTimeout", "ConnectionError"}

\* C7: with --from and --to given, a download that fails with a timeout or a
\* failed request never ends the run: every weekday of the range is attempted,
\* in order, and the dates that failed are reported after the loop.
C7_BatchContinues ==
    (cli.from_ # 0 /\ cli.to # 0) =>
        /\ ~(cli.pc = "crashed" /\ cli.exc \in TimeoutOrRequestFailed)
        /\ cli.pc = "done" =>
                /\ cli.attempted = cli.date_range
                /\ \A k \in 1..Len(cli.failed_downloads) :
                        Echo("", cli.failed_downloads[k]) \in
                            {cli.echoed[n] : n \in 1..Len(cli.echoed)}

====
